---- MODULE Spec2Model ----
(***************************************************************************)
(* Model of Project_1.py: run_sales_analysis and the __main__ block.       *)
(* The run is a single linear pass: load the CSV, normalise two columns,   *)
(* aggregate by day / month / quarter, render three line charts, aggregate *)
(* by category, render a bar chart and a pie chart.                        *)
(***************************************************************************)
EXTENDS Integers, Sequences, FiniteSets, TLC

VARIABLES
    file_path,        \* the argument of run_sales_analysis
    fs,               \* names of the files present in the working directory
    csv,              \* rows of amazon_sales_2025_INR.csv (cells are text)
    df,               \* the data frame
    daily_sales,      \* resample('D').sum()
    monthly_sales,    \* resample('M').sum(), index relabelled at line 72
    quarterly_sales,  \* resample('Q').sum(), index relabelled at line 88
    category_sales,   \* groupby(...).sum().sort_values(ascending=False)
    category_share,   \* category_sales / category_sales.sum() * 100
    bars,             \* the bars drawn by plt.bar, left to right
    wedges,           \* the wedges drawn by plt.pie, with their autopct text
    open_figs,        \* number of pyplot figures currently open
    saved,            \* file names written by plt.savefig, in order
    stdout,           \* printed lines, in order
    exit_code,        \* process exit status, NoExit while running
    pc,               \* position in the program
    chart,            \* the chart being rendered (1..5), 0 before the first
    phase,            \* position inside the chart step
    read_path         \* the path handed to pd.read_csv, "" before the call

vars == <<file_path, fs, csv, df, daily_sales, monthly_sales, quarterly_sales,
          category_sales, category_share, bars, wedges, open_figs, saved,
          stdout, exit_code, pc, chart, phase, read_path>>

----------------------------------------------------------------------------
(* Bounds *)

\* largest number of rows of an input dataset
MaxRows == 2

----------------------------------------------------------------------------
(* Names fixed by the program *)

DataFile == "amazon_sales_2025_INR.csv"

NoExit == -1

ChartFiles ==
    << "daily_sales_line_chart.png",
       "monthly_sales_line_chart.png",
       "quarterly_sales_line_chart.png",
       "category_sales_bar_chart.png",
       "category_sales_pie_chart.png" >>

NumCharts == Len(ChartFiles)

ChartFileCopyPaste(c) ==
    IF c = NumCharts THEN ChartFiles[c - 1] ELSE ChartFiles[c]

\* the name passed to plt.savefig by chart step c
ChartFile(c) == ChartFiles[c]

OtherFile == "sales.csv"

\* values of the file_path argument
Paths == {DataFile, OtherFile}

\* working directories: which of the two inputs exist
FileSystems == {{}, {OtherFile}, {DataFile}}

OpenedPathArgument(path) == path

\* the path run_sales_analysis hands to pd.read_csv when called with path
OpenedPath(path) == DataFile

SavedLine(file) == "Chart saved: " \o file

NotFoundLine(path) == "Error: The file '" \o path \o "' was not found."

MainLines ==
    << "\n All charts have been generated and saved as PNG files in the current directory.",
       "Review the 'analysis_summary.md' file for the discussion and findings." >>

----------------------------------------------------------------------------
(* Cell values.  A CSV cell is text; an empty cell is "".                  *)

NaT == [y |-> 0, m |-> 0, d |-> 0]
NaN == [nan |-> TRUE]
Num(v) == [nan |-> FALSE, v |-> v]

\* texts pd.to_datetime parses, with the calendar date each denotes
DateTexts == {"2025-01-15", "2025-03-31", "2025-04-01"}

\* a Date cell pd.to_datetime cannot parse (it raises)
BadDateText == "n/a"

ParseDate(s) ==
    CASE s = "2025-01-15" -> [y |-> 2025, m |-> 1, d |-> 15]
      [] s = "2025-03-31" -> [y |-> 2025, m |-> 3, d |-> 31]
      [] s = "2025-04-01" -> [y |-> 2025, m |-> 4, d |-> 1]
      [] s = ""           -> NaT

\* texts pd.to_numeric parses, with their values
NumberTexts == {"-400", "400", "600", "1000"}

\* a Total_Sales_INR cell pd.to_numeric cannot parse
BadNumberText == "abc"

ParseNumber(s) ==
    CASE s = "-400" -> Num(0 - 400)
      [] s = "400"  -> Num(400)
      [] s = "600"  -> Num(600)
      [] s = "1000" -> Num(1000)
      [] OTHER      -> NaN

\* category keys in the order groupby sorts them; "" is a missing category
CategoryOrder == <<"A", "B">>

Row(date, cat, amt) ==
    [Date |-> date, Product_Category |-> cat, Total_Sales_INR |-> amt]

RowDomain ==
    { Row(d, c, a) : d \in DateTexts \cup {""},
                     c \in {"A", "B", ""},
                     a \in NumberTexts \cup {BadNumberText} }

\* rows used for whole runs: two days in different quarters, and a Date cell
\* that does not parse
RunRowDomain ==
    { Row(d, c, a) : d \in {"2025-01-15", "2025-04-01", BadDateText},
                     c \in {"A", "B", ""},
                     a \in {"600", "-400", BadNumberText} }

Datasets(dom) == UNION { [1..k -> dom] : k \in 0..MaxRows }

----------------------------------------------------------------------------
(* Normalisation, lines 24-32 *)

DatesParse(d) == \A i \in DOMAIN d : d[i].Date # BadDateText

ToDatetime(d) ==
    [i \in DOMAIN d |-> [d[i] EXCEPT !.Date = ParseDate(d[i].Date)]]

ToNumeric(d) ==
    [i \in DOMAIN d |->
        [d[i] EXCEPT !.Total_Sales_INR = ParseNumber(d[i].Total_Sales_INR)]]

IsNumeric(r) == r.Total_Sales_INR # NaN

FillNaZero(d) ==
    [i \in DOMAIN d |->
        IF IsNumeric(d[i]) THEN d[i] ELSE [d[i] EXCEPT !.Total_Sales_INR = Num(0)]]

DropNa(d) == SelectSeq(d, IsNumeric)

Normalize(d) == DropNa(ToNumeric(ToDatetime(d)))

----------------------------------------------------------------------------
(* Calendar *)

IsLeap(y) == (y % 4 = 0 /\ y % 100 # 0) \/ y % 400 = 0

DaysInMonth(y, m) ==
    IF m = 2 THEN (IF IsLeap(y) THEN 29 ELSE 28)
    ELSE IF m \in {4, 6, 9, 11} THEN 30 ELSE 31

DateLE(a, b) ==
    \/ a.y < b.y
    \/ a.y = b.y /\ a.m < b.m
    \/ a.y = b.y /\ a.m = b.m /\ a.d <= b.d

NextDay(a) ==
    IF a.d < DaysInMonth(a.y, a.m) THEN [a EXCEPT !.d = a.d + 1]
    ELSE IF a.m < 12 THEN [y |-> a.y, m |-> a.m + 1, d |-> 1]
    ELSE [y |-> a.y + 1, m |-> 1, d |-> 1]

MonthEnd(y, m) == [y |-> y, m |-> m, d |-> DaysInMonth(y, m)]

QuarterOf(m) == (m - 1) \div 3 + 1

\* the right edge of the bin of frequency freq that holds date a
BinEnd(freq, a) ==
    CASE freq = "D" -> a
      [] freq = "M" -> MonthEnd(a.y, a.m)
      [] freq = "Q" -> MonthEnd(a.y, 3 * QuarterOf(a.m))

\* the right edge of the bin after the one that ends at b
NextBin(freq, b) == BinEnd(freq, NextDay(b))

RECURSIVE BinRange(_, _, _)
BinRange(freq, from, to) ==
    IF from = to THEN <<from>>
    ELSE <<from>> \o BinRange(freq, NextBin(freq, from), to)

----------------------------------------------------------------------------
(* Aggregation, lines 37-43 and 104-107 *)

RECURSIVE SumSales(_)
SumSales(d) ==
    IF d = <<>> THEN 0 ELSE Head(d).Total_Sales_INR.v + SumSales(Tail(d))

RECURSIVE MaxSales(_)
MaxSales(d) ==
    IF d = <<>> THEN 0
    ELSE LET h == Head(d).Total_Sales_INR.v
             t == MaxSales(Tail(d))
         IN  IF Tail(d) = <<>> \/ h >= t THEN h ELSE t

RECURSIVE SumValues(_)
SumValues(s) == IF s = <<>> THEN 0 ELSE Head(s).value + SumValues(Tail(s))

DatesOf(d) == { d[i].Date : i \in DOMAIN d } \ {NaT}

MinDate(S) == CHOOSE a \in S : \A b \in S : DateLE(a, b)
MaxDate(S) == CHOOSE a \in S : \A b \in S : DateLE(b, a)

ResampleMax(d, freq) ==
    LET S == DatesOf(d) IN
    IF S = {} THEN <<>>
    ELSE LET bins == BinRange(freq, BinEnd(freq, MinDate(S)), BinEnd(freq, MaxDate(S)))
             InBin(b) == SelectSeq(d, LAMBDA r : r.Date # NaT /\ BinEnd(freq, r.Date) = b)
         IN  [i \in DOMAIN bins |-> [bucket |-> bins[i], value |-> MaxSales(InBin(bins[i]))]]

\* df['Total_Sales_INR'].resample(freq).sum(): one bucket per bin from the
\* first to the last date, empty bins included with sum 0; rows whose Date
\* is NaT fall in no bin
Resample(d, freq) ==
    LET S == DatesOf(d) IN
    IF S = {} THEN <<>>
    ELSE LET bins == BinRange(freq, BinEnd(freq, MinDate(S)), BinEnd(freq, MaxDate(S)))
             InBin(b) == SelectSeq(d, LAMBDA r : r.Date # NaT /\ BinEnd(freq, r.Date) = b)
         IN  [i \in DOMAIN bins |-> [bucket |-> bins[i], value |-> SumSales(InBin(bins[i]))]]

\* df.groupby('Product_Category')[...].sum(): keys in sorted order, rows
\* with a missing key in no group
GroupByCategory(d) ==
    LET Has(c) == \E i \in DOMAIN d : d[i].Product_Category = c
        keys == SelectSeq(CategoryOrder, Has)
        Of(c) == SelectSeq(d, LAMBDA r : r.Product_Category = c)
    IN  [i \in DOMAIN keys |-> [key |-> keys[i], value |-> SumSales(Of(keys[i]))]]

Reorderings(s) ==
    { [i \in DOMAIN s |-> s[p[i]]] : p \in Permutations(DOMAIN s) }

SortValuesAscending(s) ==
    { t \in Reorderings(s) : \A i \in 1..(Len(t) - 1) : t[i].value <= t[i + 1].value }

\* sort_values(ascending=False): the orders a sort may return (the default
\* sort is not stable, so entries with equal sums may come in either order)
SortValues(s) ==
    { t \in Reorderings(s) : \A i \in 1..(Len(t) - 1) : t[i].value >= t[i + 1].value }

\* a share is the quotient num / den, with the factor 100 folded into num;
\* den = 0 is the division by zero that pandas turns into NaN or inf
ShareOf(s, factor) ==
    LET total == SumValues(s) IN
    [i \in DOMAIN s |-> [key |-> s[i].key, num |-> factor * s[i].value, den |-> total]]

CategoryShareFraction(cs) == ShareOf(cs, 1)

\* (category_sales / category_sales.sum()) * 100
CategoryShare(cs) == ShareOf(cs, 100)

----------------------------------------------------------------------------
(* Text formatting *)

Digits == <<"0", "1", "2", "3", "4", "5", "6", "7", "8", "9">>

Digit(n) == Digits[n + 1]

RECURSIVE NatStr(_)
NatStr(n) == IF n < 10 THEN Digit(n) ELSE NatStr(n \div 10) \o Digit(n % 10)

\* zero-padded decimal of n in at least w characters
RECURSIVE Pad(_, _)
Pad(n, w) ==
    IF w <= 1 THEN NatStr(n) ELSE Pad(n \div 10, w - 1) \o Digit(n % 10)

StrftimeYmNoPad(t) == NatStr(t.y) \o "-" \o NatStr(t.m)

\* Timestamp.strftime('%Y-%m')
StrftimeYm(t) == Pad(t.y, 4) \o "-" \o Pad(t.m, 2)

\* str(Timestamp.to_period('Q'))
PeriodQStr(t) == NatStr(t.y) \o "Q" \o Digit(QuarterOf(t.m))

MonthlyIndex(s) ==
    [i \in DOMAIN s |-> [bucket |-> StrftimeYm(s[i].bucket), value |-> s[i].value]]

QuarterlyIndex(s) ==
    [i \in DOMAIN s |-> [bucket |-> PeriodQStr(s[i].bucket), value |-> s[i].value]]

Abs(n) == IF n < 0 THEN 0 - n ELSE n

\* a / b rounded to the nearest integer, for a >= 0 and b > 0
RoundDiv(a, b) == (2 * a + b) \div (2 * b)

\* '%1.1f%%' % pct, pct given in tenths of a percent
AutoPct(tenths) == NatStr(tenths \div 10) \o "." \o Digit(tenths % 10) \o "%"

----------------------------------------------------------------------------
(* Drawing, lines 113 and 134-141 *)

RECURSIVE SumNum(_)
SumNum(s) == IF s = <<>> THEN 0 ELSE Head(s).num + SumNum(Tail(s))

\* plt.bar(category_sales.index, category_sales.values): one bar per entry,
\* left to right in the order of the series
Bars(cs) == [i \in DOMAIN cs |-> [x |-> cs[i].key, height |-> cs[i].value]]

\* plt.pie raises ValueError when a wedge size is negative
PieAccepts(share) ==
    \A i \in DOMAIN share : share[i].den = 0 \/ share[i].num * share[i].den >= 0

\* plt.pie(category_share, autopct='%1.1f%%'): each wedge is sized by its
\* fraction of the sum of the sizes and labelled with 100 times that fraction
PieWedges(share) ==
    LET total == SumNum(share) IN
    [i \in DOMAIN share |->
        [label |-> share[i].key,
         pct   |-> IF share[i].den = 0 \/ total = 0 THEN "nan%"
                   ELSE AutoPct(RoundDiv(1000 * Abs(share[i].num), Abs(total)))]]

----------------------------------------------------------------------------
(* The run *)

data == <<df, daily_sales, monthly_sales, quarterly_sales, category_sales,
          category_share, bars, wedges>>

input == <<file_path, csv>>

Init ==
    /\ file_path \in Paths
    /\ fs \in FileSystems
    /\ csv \in (IF DataFile \in fs THEN Datasets(RunRowDomain) ELSE {<<>>})
    /\ df = <<>>
    /\ daily_sales = <<>>
    /\ monthly_sales = <<>>
    /\ quarterly_sales = <<>>
    /\ category_sales = <<>>
    /\ category_share = <<>>
    /\ bars = <<>>
    /\ wedges = <<>>
    /\ open_figs = 0
    /\ saved = <<>>
    /\ stdout = <<>>
    /\ exit_code = NoExit
    /\ pc = "load"
    /\ chart = 0
    /\ phase = "none"
    /\ read_path = ""

\* an exception nothing catches: the interpreter ends with status 1
Raise ==
    /\ pc' = "crashed"
    /\ exit_code' = 1
    /\ UNCHANGED <<input, fs, data, open_figs, saved, stdout, chart, phase, read_path>>

\* what lines 17-21 do when called with path in a directory holding files,
\* content being the rows of DataFile
LoadResult(path, files, content) ==
    LET opened == OpenedPath(path) IN
    IF opened \in files
    THEN [read |-> opened, found |-> TRUE, frame |-> content, line |-> ""]
    ELSE [read |-> opened, found |-> FALSE, frame |-> <<>>,
          line |-> NotFoundLine(path)]

LoadSwallowsError ==
    LET r == LoadResult(file_path, fs, csv) IN
    /\ pc = "load"
    /\ read_path' = r.read
    /\ df' = r.frame
    /\ stdout' = IF r.found THEN stdout ELSE Append(stdout, r.line)
    /\ pc' = "to_datetime"
    /\ UNCHANGED <<input, fs, daily_sales, monthly_sales, quarterly_sales,
                   category_sales, category_share, bars, wedges, open_figs,
                   saved, exit_code, chart, phase>>

\* lines 17-21
Load ==
    LET r == LoadResult(file_path, fs, csv) IN
    /\ pc = "load"
    /\ read_path' = r.read
    /\ IF r.found
       THEN /\ df' = r.frame
            /\ pc' = "to_datetime"
            /\ UNCHANGED <<stdout, exit_code>>
       ELSE /\ stdout' = Append(stdout, r.line)
            /\ exit_code' = 1
            /\ pc' = "exited"
            /\ UNCHANGED df
    /\ UNCHANGED <<input, fs, daily_sales, monthly_sales, quarterly_sales,
                   category_sales, category_share, bars, wedges, open_figs,
                   saved, chart, phase>>

\* line 24
ParseDates ==
    /\ pc = "to_datetime"
    /\ IF DatesParse(df)
       THEN /\ df' = ToDatetime(df)
            /\ pc' = "to_numeric"
            /\ UNCHANGED <<input, fs, daily_sales, monthly_sales, quarterly_sales,
                           category_sales, category_share, bars, wedges,
                           open_figs, saved, stdout, exit_code, chart, phase,
                           read_path>>
       ELSE Raise

\* line 26
CoerceSales ==
    /\ pc = "to_numeric"
    /\ df' = ToNumeric(df)
    /\ pc' = "dropna"
    /\ UNCHANGED <<input, fs, daily_sales, monthly_sales, quarterly_sales,
                   category_sales, category_share, bars, wedges, open_figs,
                   saved, stdout, exit_code, chart, phase, read_path>>

\* lines 29-32
DropRows ==
    /\ pc = "dropna"
    /\ df' = DropNa(df)
    /\ pc' = "resample"
    /\ UNCHANGED <<input, fs, daily_sales, monthly_sales, quarterly_sales,
                   category_sales, category_share, bars, wedges, open_figs,
                   saved, stdout, exit_code, chart, phase, read_path>>

\* lines 37-43
ResampleAll ==
    /\ pc = "resample"
    /\ daily_sales' = Resample(df, "D")
    /\ monthly_sales' = Resample(df, "M")
    /\ quarterly_sales' = Resample(df, "Q")
    /\ pc' = "chart"
    /\ chart' = 1
    /\ phase' = "figure"
    /\ UNCHANGED <<input, fs, df, category_sales, category_share, bars, wedges,
                   open_figs, saved, stdout, exit_code, read_path>>

\* plt.figure(...): lines 56, 70, 86, 112, 133
OpenFigure ==
    /\ pc = "chart"
    /\ phase = "figure"
    /\ open_figs' = open_figs + 1
    /\ phase' = "plot"
    /\ UNCHANGED <<input, fs, data, saved, stdout, exit_code, pc, chart, read_path>>

\* whether the plotting calls of chart step c go through on the data
PlotAccepts(c) == c = NumCharts => PieAccepts(category_share)

\* from after plt.figure to before plt.savefig:
\* lines 57-64, 72-80, 88-96, 113-126, 134-144
Plot ==
    /\ pc = "chart"
    /\ phase = "plot"
    /\ IF PlotAccepts(chart)
       THEN /\ monthly_sales' =
                   IF chart = 2 THEN MonthlyIndex(monthly_sales) ELSE monthly_sales
            /\ quarterly_sales' =
                   IF chart = 3 THEN QuarterlyIndex(quarterly_sales) ELSE quarterly_sales
            /\ bars' = IF chart = 4 THEN Bars(category_sales) ELSE bars
            /\ wedges' = IF chart = 5 THEN PieWedges(category_share) ELSE wedges
            /\ phase' = "save"
            /\ UNCHANGED <<input, fs, df, daily_sales, category_sales,
                           category_share, open_figs, saved, stdout, exit_code,
                           pc, chart, read_path>>
       ELSE Raise

\* a plotting call or plt.savefig fails for a reason outside the data
\* (no space left, no permission, a backend error)
RenderError ==
    /\ pc = "chart"
    /\ phase \in {"plot", "save"}
    /\ Raise

\* plt.savefig(...): lines 65, 81, 97, 127, 145
Savefig ==
    /\ pc = "chart"
    /\ phase = "save"
    /\ saved' = Append(saved, ChartFile(chart))
    /\ fs' = fs \cup {ChartFile(chart)}
    /\ phase' = "close"
    /\ UNCHANGED <<input, data, open_figs, stdout, exit_code, pc, chart, read_path>>

CloseFigureForgotten ==
    /\ pc = "chart"
    /\ phase = "close"
    /\ phase' = "print"
    /\ UNCHANGED <<input, fs, data, open_figs, saved, stdout, exit_code, pc, chart,
                   read_path>>

\* plt.close(): lines 66, 82, 98, 128, 146
CloseFigure ==
    /\ pc = "chart"
    /\ phase = "close"
    /\ open_figs' = open_figs - 1
    /\ phase' = "print"
    /\ UNCHANGED <<input, fs, data, saved, stdout, exit_code, pc, chart, read_path>>

\* print("Chart saved: ..."): lines 67, 83, 99, 129, 147; then on to what
\* follows the chart step
PrintSaved ==
    /\ pc = "chart"
    /\ phase = "print"
    /\ stdout' = Append(stdout, SavedLine(ChartFile(chart)))
    /\ IF chart = 3
       THEN /\ pc' = "category"
            /\ phase' = "none"
            /\ UNCHANGED chart
       ELSE IF chart = NumCharts
       THEN /\ pc' = "return"
            /\ phase' = "none"
            /\ UNCHANGED chart
       ELSE /\ chart' = chart + 1
            /\ phase' = "figure"
            /\ UNCHANGED pc
    /\ UNCHANGED <<input, fs, data, open_figs, saved, exit_code, read_path>>

\* lines 104-107
CategoryAnalysis ==
    /\ pc = "category"
    /\ \E sorted \in SortValues(GroupByCategory(df)) :
          /\ category_sales' = sorted
          /\ category_share' = CategoryShare(sorted)
    /\ pc' = "chart"
    /\ chart' = 4
    /\ phase' = "figure"
    /\ UNCHANGED <<input, fs, df, daily_sales, monthly_sales, quarterly_sales,
                   bars, wedges, open_figs, saved, stdout, exit_code, read_path>>

\* run_sales_analysis returns; lines 153-154, then the interpreter ends
MainPrint ==
    /\ pc = "return"
    /\ stdout' = stdout \o MainLines
    /\ exit_code' = 0
    /\ pc' = "done"
    /\ UNCHANGED <<input, fs, data, open_figs, saved, chart, phase, read_path>>

Next ==
    \/ Load
    \/ ParseDates
    \/ CoerceSales
    \/ DropRows
    \/ ResampleAll
    \/ OpenFigure
    \/ Plot
    \/ RenderError
    \/ Savefig
    \/ CloseFigure
    \/ PrintSaved
    \/ CategoryAnalysis
    \/ MainPrint

Spec == Init /\ [][Next]_vars

----------------------------------------------------------------------------
(* The aggregation as a function of the dataset: every dataset of up to    *)
(* MaxRows rows over RowDomain, pushed through lines 24-43, 72, 88,        *)
(* 104-107, 113 and 134 in one step.                                       *)

InitData ==
    /\ file_path = DataFile
    /\ fs = {DataFile}
    /\ csv \in Datasets(RowDomain)
    /\ df = <<>>
    /\ daily_sales = <<>>
    /\ monthly_sales = <<>>
    /\ quarterly_sales = <<>>
    /\ category_sales = <<>>
    /\ category_share = <<>>
    /\ bars = <<>>
    /\ wedges = <<>>
    /\ open_figs = 0
    /\ saved = <<>>
    /\ stdout = <<>>
    /\ exit_code = NoExit
    /\ pc = "analyse"
    /\ chart = 0
    /\ phase = "none"
    /\ read_path = DataFile

Analyse ==
    /\ pc = "analyse"
    /\ df' = Normalize(csv)
    /\ daily_sales' = Resample(df', "D")
    /\ monthly_sales' = MonthlyIndex(Resample(df', "M"))
    /\ quarterly_sales' = QuarterlyIndex(Resample(df', "Q"))
    /\ \E sorted \in SortValues(GroupByCategory(df')) :
          /\ category_sales' = sorted
          /\ category_share' = CategoryShare(sorted)
    /\ bars' = Bars(category_sales')
    /\ wedges' = IF PieAccepts(category_share') THEN PieWedges(category_share')
                 ELSE <<>>
    /\ pc' = "analysed"
    /\ UNCHANGED <<input, fs, open_figs, saved, stdout, exit_code, chart, phase,
                   read_path>>

NextData == Analyse

SpecData == InitData /\ [][NextData]_vars

----------------------------------------------------------------------------
(* Properties *)

Range(s) == { s[i] : i \in DOMAIN s }

\* C1: when amazon_sales_2025_INR.csv is missing, the run prints the
\* file-not-found line and exits with status 1, and no chart file is ever
\* written (no savefig step runs, no figure is opened).
C1_MissingFileExitsWithoutCharts ==
    DataFile \notin fs =>
        /\ saved = <<>>
        /\ open_figs = 0
        /\ fs \cap Range(ChartFiles) = {}
        /\ pc \in {"load", "exited"}
        /\ pc = "exited" =>
              /\ exit_code = 1
              /\ stdout = <<NotFoundLine(file_path)>>

C1_Witness ==
    /\ pc = "exited"
    /\ DataFile \notin fs
    /\ exit_code = 1
    /\ Len(stdout) = 1

\* C2 as stated: a run in which the file exists and no step fails ends
\* having written six PNG chart files.
C2_SixChartFiles ==
    pc = "done" => Cardinality(Range(saved)) = 6

\* C2 amended: a run in which the file exists and no step fails ends having
\* written five PNG chart files, the five fixed names, each once.
C2_FiveChartFiles ==
    pc = "done" =>
        /\ Len(saved) = 5
        /\ Cardinality(Range(saved)) = 5
        /\ Range(saved) = Range(ChartFiles)
        /\ Range(saved) \subseteq fs
        /\ exit_code = 0

C2_Witness ==
    /\ pc = "done"
    /\ DataFile \in fs
    /\ saved = ChartFiles

AllNumeric(d) == \A i \in DOMAIN d : d[i].Total_Sales_INR \in NumberTexts

HasDate(r) == r.Date # ""
HasCategory(r) == r.Product_Category # ""

\* C3 as stated: when every amount is numeric, the daily, monthly, quarterly
\* and category aggregates all sum to the grand total over all rows, rows
\* with a missing Date or Product_Category included.
C3_AllSumsEqualGrandTotal ==
    (pc = "analysed" /\ AllNumeric(csv)) =>
        LET total == SumSales(ToNumeric(csv)) IN
        /\ SumValues(daily_sales) = total
        /\ SumValues(monthly_sales) = total
        /\ SumValues(quarterly_sales) = total
        /\ SumValues(category_sales) = total

\* C3 amended: when every amount is numeric, the daily, monthly and
\* quarterly aggregates each sum to the total over the rows that have a
\* Date, and the category aggregate sums to the total over the rows that
\* have a Product_Category; so all four equal the grand total when no row
\* misses its Date or its Product_Category.
C3_SumsEqualTotalOfKeyedRows ==
    (pc = "analysed" /\ AllNumeric(csv)) =>
        LET rows  == ToNumeric(csv)
            dated == SumSales(SelectSeq(rows, HasDate))
            keyed == SumSales(SelectSeq(rows, HasCategory))
            total == SumSales(rows)
        IN  /\ SumValues(daily_sales) = dated
            /\ SumValues(monthly_sales) = dated
            /\ SumValues(quarterly_sales) = dated
            /\ SumValues(category_sales) = keyed
            /\ (\A i \in DOMAIN csv : HasDate(csv[i]) /\ HasCategory(csv[i])) =>
                  dated = total /\ keyed = total

C3_Witness ==
    /\ pc = "analysed"
    /\ AllNumeric(csv)
    /\ Len(csv) = 2
    /\ \A i \in DOMAIN csv : HasDate(csv[i]) /\ HasCategory(csv[i])
    /\ csv[1].Date = csv[2].Date
    /\ csv[1].Product_Category # csv[2].Product_Category
    /\ SumValues(daily_sales) = 1000
    /\ SumValues(category_sales) = 1000

WithoutBadAmounts(d) ==
    SelectSeq(d, LAMBDA r : r.Total_Sales_INR \in NumberTexts)

\* C4: a row whose Total_Sales_INR does not parse as a number contributes
\* to no aggregate: every aggregate equals the one computed from the dataset
\* with those rows deleted, every time bucket lies within the dates of the
\* rows that do parse, and every category is the category of such a row.
C4_BadAmountRowsContributeNothing ==
    pc = "analysed" =>
        LET kept == WithoutBadAmounts(csv)
            frame == Normalize(kept)
            days == { ParseDate(kept[i].Date) : i \in DOMAIN kept } \ {NaT}
        IN  /\ df = frame
            /\ daily_sales = Resample(frame, "D")
            /\ monthly_sales = MonthlyIndex(Resample(frame, "M"))
            /\ quarterly_sales = QuarterlyIndex(Resample(frame, "Q"))
            /\ category_sales \in SortValues(GroupByCategory(frame))
            /\ category_share = CategoryShare(category_sales)
            /\ \A i \in DOMAIN daily_sales :
                  /\ \E a \in days : DateLE(a, daily_sales[i].bucket)
                  /\ \E b \in days : DateLE(daily_sales[i].bucket, b)
            /\ Len(monthly_sales) <= Len(daily_sales)
            /\ Len(quarterly_sales) <= Len(monthly_sales)
            /\ \A i \in DOMAIN category_sales :
                  \E j \in DOMAIN kept :
                      kept[j].Product_Category = category_sales[i].key

C4_Witness ==
    /\ pc = "analysed"
    /\ Len(csv) = 2
    /\ csv[1] = Row("2025-01-15", "A", "600")
    /\ csv[2] = Row("2025-04-01", "B", BadNumberText)
    /\ Len(daily_sales) = 1
    /\ Len(category_sales) = 1

\* C5: the category aggregate holds one entry per distinct category of the
\* retained rows, valued with the sum of that category, in descending order
\* of sum; the bars of the bar chart come in that order.  Sums 600 for A and
\* 400 for B rank A before B.
C5_CategoryAggregateSortedDescending ==
    pc = "analysed" =>
        LET KeysOf == { category_sales[i].key : i \in DOMAIN category_sales }
            SumOf(c) == SumSales(SelectSeq(df, LAMBDA r : r.Product_Category = c))
        IN  /\ KeysOf = { df[i].Product_Category : i \in DOMAIN df } \ {""}
            /\ Cardinality(KeysOf) = Len(category_sales)
            /\ \A i \in DOMAIN category_sales :
                  category_sales[i].value = SumOf(category_sales[i].key)
            /\ \A i \in 1..(Len(category_sales) - 1) :
                  category_sales[i].value >= category_sales[i + 1].value
            /\ Len(bars) = Len(category_sales)
            /\ \A i \in DOMAIN bars :
                  /\ bars[i].x = category_sales[i].key
                  /\ bars[i].height = category_sales[i].value
            /\ ("A" \in KeysOf /\ "B" \in KeysOf /\ SumOf("A") = 600 /\ SumOf("B") = 400)
                  => bars = << [x |-> "A", height |-> 600], [x |-> "B", height |-> 400] >>

C5_Witness ==
    /\ pc = "analysed"
    /\ csv = << Row("2025-01-15", "B", "400"), Row("2025-01-15", "A", "600") >>
    /\ category_sales = << [key |-> "A", value |-> 600], [key |-> "B", value |-> 400] >>
    /\ bars[1].x = "A"

\* the shares are finite and add up to 100
SharesSumTo100(share) ==
    /\ share # <<>>
    /\ \A i \in DOMAIN share : share[i].den # 0 /\ share[i].den = share[1].den
    /\ SumNum(share) = 100 * share[1].den

\* C6 as stated: whenever a row is retained, each share is 100 times the
\* category sum over the sum of all category sums and the shares add up to
\* 100, also when the category sums total zero.
C6_SharesAlwaysSumTo100 ==
    (pc = "analysed" /\ df # <<>> /\ category_sales # <<>>) =>
        SharesSumTo100(category_share)

\* C6 amended: whenever the category sums have a non-zero total, each share
\* is 100 times the category sum over that total and the shares add up to
\* 100, negative category sums included; category sums 600 and 400 give the
\* pie labels 60.0% and 40.0%.
C6_SharesSumTo100WhenTotalNonZero ==
    (pc = "analysed" /\ SumValues(category_sales) # 0) =>
        /\ Len(category_share) = Len(category_sales)
        /\ \A i \in DOMAIN category_share :
              /\ category_share[i].key = category_sales[i].key
              /\ category_share[i].num = 100 * category_sales[i].value
              /\ category_share[i].den = SumValues(category_sales)
        /\ SharesSumTo100(category_share)
        /\ (Len(category_sales) = 2 /\ category_sales[1].value = 600
                                    /\ category_sales[2].value = 400)
              => /\ Len(wedges) = 2
                 /\ wedges[1].pct = "60.0%"
                 /\ wedges[2].pct = "40.0%"

C6_Witness ==
    /\ pc = "analysed"
    /\ Len(category_sales) = 2
    /\ category_sales[1].value = 600
    /\ category_sales[2].value = 400
    /\ category_share[1].num = 60 * category_share[1].den
    /\ wedges[2].pct = "40.0%"

TwoDigit == <<"01", "02", "03", "04", "05", "06", "07", "08", "09", "10", "11", "12">>
QuarterDigit == <<"1", "1", "1", "2", "2", "2", "3", "3", "3", "4", "4", "4">>

\* the dates of the retained rows
RetainedDates == { df[i].Date : i \in DOMAIN df } \ {NaT}

\* the months from the first to the last retained date (all of one year here)
RetainedMonths ==
    { m \in 1..12 : /\ \E a \in RetainedDates : a.m <= m
                    /\ \E b \in RetainedDates : m <= b.m }

SingleRowFixture ==
    /\ Len(csv) = 1
    /\ csv[1].Date = "2025-01-15"
    /\ csv[1].Total_Sales_INR = "1000"

\* C7 as stated: monthly buckets are labelled "YYYY-MM" and quarterly
\* buckets "YYYY Qn", with a space; the single row 2025-01-15 / 1000 gives
\* one monthly bucket "2025-01" and one quarterly bucket "2025 Q1", each 1000.
C7_QuarterLabelWithSpace ==
    pc = "analysed" =>
        /\ { monthly_sales[i].bucket : i \in DOMAIN monthly_sales }
              = { "2025-" \o TwoDigit[m] : m \in RetainedMonths }
        /\ { quarterly_sales[i].bucket : i \in DOMAIN quarterly_sales }
              = { "2025 Q" \o QuarterDigit[m] : m \in RetainedMonths }
        /\ SingleRowFixture =>
              /\ monthly_sales = << [bucket |-> "2025-01", value |-> 1000] >>
              /\ quarterly_sales = << [bucket |-> "2025 Q1", value |-> 1000] >>

\* C7 amended: monthly buckets are labelled "YYYY-MM" and quarterly buckets
\* "YYYYQn", without a space; the single row 2025-01-15 / 1000 gives one
\* monthly bucket "2025-01" and one quarterly bucket "2025Q1", each 1000.
C7_QuarterLabelWithoutSpace ==
    pc = "analysed" =>
        /\ { monthly_sales[i].bucket : i \in DOMAIN monthly_sales }
              = { "2025-" \o TwoDigit[m] : m \in RetainedMonths }
        /\ { quarterly_sales[i].bucket : i \in DOMAIN quarterly_sales }
              = { "2025Q" \o QuarterDigit[m] : m \in RetainedMonths }
        /\ SingleRowFixture =>
              /\ monthly_sales = << [bucket |-> "2025-01", value |-> 1000] >>
              /\ quarterly_sales = << [bucket |-> "2025Q1", value |-> 1000] >>

C7_Witness ==
    /\ pc = "analysed"
    /\ SingleRowFixture
    /\ Len(monthly_sales) = 1
    /\ monthly_sales[1].bucket = "2025-01"
    /\ quarterly_sales[1].bucket = "2025Q1"

ChartLines(n) == [i \in 1..n |-> SavedLine(ChartFiles[i])]

\* confirmation lines printed so far
Printed == IF pc = "done" THEN Len(stdout) - Len(MainLines) ELSE Len(stdout)

\* C9: while no step has failed, the charts are rendered in the order
\* daily, monthly, quarterly, bar, pie; at most one figure is open, and only
\* between plt.figure and plt.close of a step; each step saves one file; a
\* confirmation line is printed only after its file is saved and its figure
\* closed; no figure is open when the function returns.
C9_OneFigureAtATimeInOrder ==
    /\ open_figs \in {0, 1}
    /\ pc \notin {"crashed", "exited"} =>
          /\ open_figs = 1 <=> (pc = "chart" /\ phase \in {"plot", "save", "close"})
          /\ Len(saved) <= NumCharts
          /\ saved = SubSeq(ChartFiles, 1, Len(saved))
          /\ SubSeq(stdout, 1, Printed) = ChartLines(Printed)
          /\ Printed <= Len(saved)
          /\ Len(saved) <= Printed + 1
          /\ pc = "chart" =>
                /\ Len(saved) = IF phase \in {"close", "print"} THEN chart ELSE chart - 1
                /\ Printed = chart - 1
          /\ pc \in {"return", "done"} =>
                /\ open_figs = 0
                /\ saved = ChartFiles
                /\ Printed = NumCharts

C9_Witness ==
    /\ pc = "return"
    /\ open_figs = 0
    /\ Len(saved) = NumCharts
    /\ stdout = ChartLines(NumCharts)

\* C10: a figure opened by a chart step is closed before a failure of that
\* step leaves run_sales_analysis, so no run ends with a figure still open.
C10_FigureClosedOnFailure ==
    pc \in {"crashed", "exited", "done"} => open_figs = 0

====
